---- MODULE Spec2Model ----
(***************************************************************************)
(* A model of qspectra/hamiltonian.py: the Hamiltonian base class, the     *)
(* ElectronicHamiltonian and the VibronicHamiltonian that wraps one, the   *)
(* per-instance memoization of their queries, and callers issuing those    *)
(* queries one call at a time or concurrently.                             *)
(***************************************************************************)
EXTENDS Integers, Sequences, FiniteSets, TLC

(***************************************************************************)
(* Numbers.  Every number of the program that the model computes lies in   *)
(* Q(sqrt 2): energies and couplings are rationals, and the ladder         *)
(* operators of a mode truncated at up to three levels have the entries    *)
(* sqrt 1 and sqrt 2.  A number is held exactly as the pair <<a, b>> that  *)
(* stands for (a + b * sqrt 2) / Unit.                                     *)
(***************************************************************************)
SiteCounts == {1, 2}

Unit == CHOOSE u \in 1..12 :
          /\ u % 2 = 0
          /\ \A n \in SiteCounts : u % n = 0
          /\ \A v \in 1..(u - 1) : ~(v % 2 = 0 /\ \A n \in SiteCounts : v % n = 0)

NInt(k) == <<k * Unit, 0>>

NZero == NInt(0)

NOne == NInt(1)

NAdd(x, y) == <<x[1] + y[1], x[2] + y[2]>>

NNeg(x) == <<0 - x[1], 0 - x[2]>>

NSub(x, y) == NAdd(x, NNeg(y))

\* (a + b r)(c + d r) = (ac + 2bd) + (ad + bc) r, with r = sqrt 2; each factor
\* carries 1/Unit. Exact whenever one factor is an integer (k * Unit, l * Unit).
NMul(x, y) == <<(x[1] * y[1] + 2 * x[2] * y[2]) \div Unit,
                (x[1] * y[2] + x[2] * y[1]) \div Unit>>

\* The square roots the truncated ladder operators need.
NSqrt(k) == CASE k = 0 -> NZero
              [] k = 1 -> NInt(1)
              [] k = 2 -> <<0, Unit>>
              [] k = 4 -> NInt(2)

\* x / n, taken where the program divides a sum by a count (np.mean).
NDivInt(x, n) == <<x[1] \div n, x[2] \div n>>

NDivExact(x, n) == x[1] % n = 0 /\ x[2] % n = 0

(***************************************************************************)
(* Matrices: a matrix is the sequence of its rows.  SeqSum and SeqProd     *)
(* fold a sequence of numbers / of integers.                               *)
(***************************************************************************)
RECURSIVE NSum(_)
NSum(s) == IF s = <<>> THEN NZero ELSE NAdd(Head(s), NSum(Tail(s)))

RECURSIVE prod(_)
prod(s) == IF s = <<>> THEN 1 ELSE Head(s) * prod(Tail(s))

\* A sequence with the elements of f, built element by element.
Vector(f) == f \o <<>>

\* A matrix is the sequence of its rows.
Matrix(f) == [i \in DOMAIN f |-> f[i] \o <<>>] \o <<>>

NRows(A) == Len(A)

NCols(A) == IF Len(A) = 0 THEN 0 ELSE Len(A[1])

zeros(n, m) == Matrix([i \in 1..n |-> [j \in 1..m |-> NZero]])

identity(n) ==
  Matrix([i \in 1..n |-> [j \in 1..n |-> IF i = j THEN NOne ELSE NZero]])

IsSquare(A, n) == Len(A) = n /\ \A i \in 1..n : Len(A[i]) = n

MAdd(A, B) ==
  Matrix([i \in 1..NRows(A) |-> [j \in 1..NCols(A) |-> NAdd(A[i][j], B[i][j])]])

MSub(A, B) ==
  Matrix([i \in 1..NRows(A) |-> [j \in 1..NCols(A) |-> NSub(A[i][j], B[i][j])]])

MScale(c, A) ==
  Matrix([i \in 1..NRows(A) |-> [j \in 1..NCols(A) |-> NMul(c, A[i][j])]])

diag(v) ==
  Matrix([i \in 1..Len(v) |-> [j \in 1..Len(v) |-> IF i = j THEN v[i] ELSE NZero]])

Trace(A) == NSum([i \in 1..Len(A) |-> A[i][i]])

\* np.kron of two matrices: entry (i1 * rows(B) + i2, j1 * cols(B) + j2) is
\* A[i1][j1] * B[i2][j2] (0-based), the first factor being the slow index.
kron(A, B) ==
  LET rb == NRows(B)
      cb == NCols(B)
      At(i, j) == NMul(A[((i - 1) \div rb) + 1][((j - 1) \div cb) + 1],
                       B[((i - 1) % rb) + 1][((j - 1) % cb) + 1])
  IN Matrix([i \in 1..(NRows(A) * rb) |->
               [j \in 1..(NCols(A) * cb) |-> At(i, j)]])

(***************************************************************************)
(* Python values.  None is the empty sequence and a present optional value *)
(* v is <<v>>.  An array carries its number of dimensions: a matrix has    *)
(* ndim 2, a stack (or a list) of matrices ndim 3.  Results that the model *)
(* does not evaluate numerically (an eigensystem, a matrix exponential, a  *)
(* contraction with collaborator operators) are kept as terms over their   *)
(* arguments.                                                              *)
(***************************************************************************)
None == <<>>

Some(v) == <<v>>

ndarray(ndim, a) == [t |-> "ndarray", ndim |-> ndim, a |-> a]

ObjRef(id) == [t |-> "object", id |-> id]

NoValue == [t |-> "none"]

(***************************************************************************)
(* operator_tools and polarization: the algebra collaborators, which the   *)
(* source imports.  A subspace label is the sequence of its letters.       *)
(***************************************************************************)
InSubspace(c, subspace) == \E i \in 1..Len(subspace) : subspace[i] = c

\* The pairs i < j of sites 1..n in lexicographic order: the basis of the
\* doubly-excited manifold.
PairSeq(n) ==
  LET S == {p \in (1..n) \X (1..n) : p[1] < p[2]}
      Before(q, p) == q[1] < p[1] \/ (q[1] = p[1] /\ q[2] < p[2])
      At(k) == CHOOSE p \in S : Cardinality({q \in S : Before(q, p)}) = k - 1
  IN Vector([k \in 1..Cardinality(S) |-> At(k)])

\* The operator sum_{nm} A[n][m] a+_n a_m on the two-excitation basis states.
operator_1_to_2(A) ==
  LET D(a, b) == IF a = b THEN NOne ELSE NZero
      Elem(p, q) ==
        NAdd(NAdd(NMul(A[p[1]][q[1]], D(p[2], q[2])),
                  NMul(A[p[1]][q[2]], D(p[2], q[1]))),
             NAdd(NMul(A[p[2]][q[1]], D(p[1], q[2])),
                  NMul(A[p[2]][q[2]], D(p[1], q[1]))))
      On(P) == Matrix([k \in 1..Len(P) |-> [l \in 1..Len(P) |-> Elem(P[k], P[l])]])
  IN On(PairSeq(Len(A)))

block_diag2(A, B) ==
  LET n == Len(A)
      m == Len(B)
      At(i, j) == IF i <= n /\ j <= n THEN A[i][j]
                  ELSE IF i > n /\ j > n THEN B[i - n][j - n]
                  ELSE NZero
  IN Matrix([i \in 1..(n + m) |-> [j \in 1..(n + m) |-> At(i, j)]])

\* One zero-energy state for 'g', the matrix itself for 'e', the two-excitation
\* matrix for 'f': the blocks of the manifolds the label names, in that order.
operator_extend(A, subspace) ==
  LET G == IF InSubspace("g", subspace) THEN zeros(1, 1) ELSE <<>>
      E == IF InSubspace("e", subspace) THEN A ELSE <<>>
      F == IF InSubspace("f", subspace) THEN operator_1_to_2(A) ELSE <<>>
  IN block_diag2(block_diag2(G, E), F)

\* index is 0-based, as in the source.
unit_vec(index, length) ==
  Vector([k \in 1..length |-> IF k = index + 1 THEN NOne ELSE NZero])

\* np.kron, which pads the array of fewer dimensions with leading axes of
\* length 1: a stack of matrices times a matrix is the stack of the products.
tensor(x, y) ==
  IF x.t # "ndarray" THEN [t |-> "kron", a |-> x, b |-> y]
  ELSE IF x.ndim = 3
  THEN ndarray(3, Vector([k \in 1..Len(x.a) |-> kron(x.a[k], y.a)]))
  ELSE ndarray(2, kron(x.a, y.a))

\* b[k][k + 1] = sqrt(k + 1), 0-based: the truncated annihilation operator.
vib_annihilate(num_levels) ==
  LET At(i, j) == IF j = i + 1 THEN NSqrt(i) ELSE NZero
  IN Matrix([i \in 1..num_levels |-> [j \in 1..num_levels |-> At(i, j)]])

vib_create(num_levels) ==
  LET At(i, j) == IF i = j + 1 THEN NSqrt(j) ELSE NZero
  IN Matrix([i \in 1..num_levels |-> [j \in 1..num_levels |-> At(i, j)]])

\* m is 0-based: identity on the modes before m, the operator on mode m, identity
\* on the modes after it.
extend_vib_operator(n_vibrational_levels, m, vib_operator) ==
  LET before == prod(SubSeq(n_vibrational_levels, 1, m))
      after == prod(SubSeq(n_vibrational_levels, m + 2, Len(n_vibrational_levels)))
  IN kron(kron(identity(before), vib_operator), identity(after))

transition_operator(n, n_sites, subspace, transitions) ==
  [t |-> "transition_operator", n |-> n, n_sites |-> n_sites,
   subspace |-> subspace, transitions |-> transitions]

polarization_vector(polarization) ==
  [t |-> "polarization_vector", polarization |-> polarization]

(***************************************************************************)
(* The heap.  objs is the sequence of the Hamiltonian instances made so    *)
(* far, an instance being known by its index.  cache[h][f] is the memo     *)
(* table of method f on instance h: a function from the argument tuples    *)
(* already computed to their stored results.                               *)
(*                                                                         *)
(* A method is written as the source writes it, with one addition: where   *)
(* the source calls a memoized method whose key is not stored yet, the     *)
(* model's method stops and asks for that call (Await); run again once the *)
(* key is stored, it goes on from the stored result.  It ends by returning *)
(* a value (Return, ReturnNew for a value that is a new instance) or by    *)
(* raising (Raise).                                                        *)
(***************************************************************************)
MemoNames == {"H", "ground_state", "eig", "in_rotating_frame",
              "n_vibrational_states", "H_vibrational"}

Cached(cache, h, f, a) == a \in DOMAIN cache[h][f]

Lookup(cache, h, f, a) == cache[h][f][a]

Await(h, f, a) == [k |-> "call", obj |-> h, f |-> f, a |-> a]

\* new: the instances the method constructs; upd: the pairs <<h, instance>> of
\* the existing instances it assigns fields of.
Return(v) == [k |-> "return", val |-> v, new |-> <<>>, upd |-> <<>>]

ReturnNew(v, o) == [k |-> "return", val |-> v, new |-> <<o>>, upd |-> <<>>]

Raise(e) == [k |-> "raise", err |-> e]

HamiltonianError(msg) == [type |-> "HamiltonianError", msg |-> msg]

\* What Python raises for self.bath.temperature when self.bath is None.
AttributeError == [type |-> "AttributeError",
                   msg |-> "'NoneType' object has no attribute 'temperature'"]

(***************************************************************************)
(* class Hamiltonian                                                       *)
(***************************************************************************)
n_states(cache, h, subspace) ==
  IF ~Cached(cache, h, "H", <<subspace>>)
  THEN Await(h, "H", <<subspace>>)
  ELSE Return(Len(Lookup(cache, h, "H", <<subspace>>).a))

\* scipy.linalg.eigh(H) is kept as the term eigh(H).
eig(objs, cache, h, a) ==
  IF ~Cached(cache, h, "H", a)
  THEN Await(h, "H", a)
  ELSE Return([t |-> "eigh", H |-> Lookup(cache, h, "H", a).a])

E(cache, h, subspace) ==
  IF ~Cached(cache, h, "eig", <<subspace>>)
  THEN Await(h, "eig", <<subspace>>)
  ELSE Return(Lookup(cache, h, "eig", <<subspace>>))

\* The mean of the eigenvalues of a matrix is its trace over its dimension.
np_mean_eigenvalues(eigh) == NDivInt(Trace(eigh.H), Len(eigh.H))

mean_excitation_freq(objs, cache, h, a) ==
  LET With(e) ==
        IF e.k # "return" THEN e
        ELSE Return(NAdd(np_mean_eigenvalues(e.val), objs[h].energy_offset))
  IN With(E(cache, h, <<"e">>))

(***************************************************************************)
(* class ElectronicHamiltonian                                             *)
(***************************************************************************)
ElectronicHamiltonian(H_1exc, energy_offset, bath, dipoles, energy_spread_extra) ==
  [cls |-> "ElectronicHamiltonian",
   H_1exc |-> H_1exc,
   energy_offset |-> energy_offset,
   bath |-> bath,
   dipoles |-> dipoles,
   energy_spread_extra |-> energy_spread_extra,
   n_vibrational_states |-> 1]

n_sites(objs, h) == Len(objs[h].H_1exc)

ElectronicHamiltonian_H(objs, cache, h, a) ==
  Return(ndarray(2, operator_extend(objs[h].H_1exc, a[1])))

\* ground_state without its test for 'g' in the subspace.
ground_state_without_subspace_test(objs, cache, h, a) ==
  LET state(i, j) == IF i = 1 /\ j = 1 THEN NOne ELSE NZero
      With(N) == IF N.k # "return" THEN N
                 ELSE Return(ndarray(2, Matrix([i \in 1..N.val |->
                                                 [j \in 1..N.val |-> state(i, j)]])))
  IN With(n_states(cache, h, a[1]))

ElectronicHamiltonian_ground_state(objs, cache, h, a) ==
  LET state(i, j) == IF InSubspace("g", a[1]) /\ i = 1 /\ j = 1
                     THEN NOne ELSE NZero
      With(N) == IF N.k # "return" THEN N
                 ELSE Return(ndarray(2, Matrix([i \in 1..N.val |->
                                                 [j \in 1..N.val |-> state(i, j)]])))
  IN With(n_states(cache, h, a[1]))

\* in_rotating_frame that shifts the receiver itself and returns it.
in_rotating_frame_in_place(objs, cache, h, a) ==
  LET self == objs[h]
      H_1exc(rw_freq) == MSub(self.H_1exc,
                              MScale(NSub(rw_freq, self.energy_offset),
                                     identity(Len(self.H_1exc))))
      With(freq) ==
        IF freq.k # "return" THEN freq
        ELSE [k |-> "return", val |-> ObjRef(h), new |-> <<>>,
              upd |-> <<<<h, ElectronicHamiltonian(H_1exc(freq.val), freq.val,
                                                   self.bath, self.dipoles,
                                                   self.energy_spread_extra)>>>>]
  IN With(IF a = <<>> THEN mean_excitation_freq(objs, cache, h, <<>>)
          ELSE Return(a[1]))

\* in_rotating_frame that shifts by rw_freq, whatever frame the receiver is in.
in_rotating_frame_from_zero(objs, cache, h, a) ==
  LET self == objs[h]
      With(freq) ==
        IF freq.k # "return" THEN freq
        ELSE ReturnNew(ObjRef(Len(objs) + 1),
                       ElectronicHamiltonian(
                         MSub(self.H_1exc,
                              MScale(freq.val, identity(Len(self.H_1exc)))),
                         freq.val, self.bath, self.dipoles,
                         self.energy_spread_extra))
  IN With(IF a = <<>> THEN mean_excitation_freq(objs, cache, h, <<>>)
          ELSE Return(a[1]))

\* a is <<>> when rw_freq is omitted and <<rw_freq>> when it is given.
ElectronicHamiltonian_in_rotating_frame(objs, cache, h, a) ==
  LET self == objs[h]
      H_1exc(rw_freq) == MSub(self.H_1exc,
                              MScale(NSub(rw_freq, self.energy_offset),
                                     identity(Len(self.H_1exc))))
      With(freq) ==
        IF freq.k # "return" THEN freq
        ELSE ReturnNew(ObjRef(Len(objs) + 1),
                       ElectronicHamiltonian(H_1exc(freq.val), freq.val,
                                             self.bath, self.dipoles,
                                             self.energy_spread_extra))
  IN With(IF a = <<>> THEN mean_excitation_freq(objs, cache, h, <<>>)
          ELSE Return(a[1]))

\* dipole_operator without its test for missing dipoles.
dipole_operator_without_test(objs, cache, h, a) ==
  Return([t |-> "einsum",
          trans_ops |-> LET op(n) == transition_operator(
                              n - 1, n_sites(objs, h), a[1], a[3])
                        IN Vector([k \in 1..n_sites(objs, h) |-> op(k)]),
          dipoles |-> objs[h].dipoles,
          polarization |-> polarization_vector(a[2])])

\* a is <<subspace, polarization, transitions>>; np.einsum over the
\* collaborators' operators is kept as a term.
ElectronicHamiltonian_dipole_operator(objs, cache, h, a) ==
  IF objs[h].dipoles = None
  THEN Raise(HamiltonianError("transition dipole moments undefined"))
  ELSE Return([t |-> "einsum",
               trans_ops |-> LET op(n) == transition_operator(
                                   n - 1, n_sites(objs, h), a[1], a[3])
                             IN Vector([k \in 1..n_sites(objs, h) |-> op(k)]),
               dipoles |-> objs[h].dipoles[1],
               polarization |-> polarization_vector(a[2])])

number_operator(objs, h, site, subspace) ==
  operator_extend(diag(unit_vec(site, n_sites(objs, h))), subspace)

\* The list of the sites' number operators, as the array np.kron makes of it.
ElectronicHamiltonian_system_bath_couplings(objs, cache, h, a) ==
  IF objs[h].bath = None
  THEN Raise(HamiltonianError("bath undefined"))
  ELSE LET op(n) == number_operator(objs, h, n - 1, a[1])
       IN Return(ndarray(3, Vector([k \in 1..n_sites(objs, h) |-> op(k)])))

\* expm(-H / T) / trace(expm(-H / T)), kept as a term.
thermal_state(hamiltonian_matrix, temperature) ==
  [t |-> "thermal_state", hamiltonian_matrix |-> hamiltonian_matrix,
   temperature |-> temperature]

(***************************************************************************)
(* class VibronicHamiltonian                                               *)
(***************************************************************************)
VibronicHamiltonian(objs, electronic, n_vibrational_levels, vib_energies, elec_vib_couplings) ==
  [cls |-> "VibronicHamiltonian",
   electronic |-> electronic,
   energy_offset |-> objs[electronic].energy_offset,
   energy_spread_extra |-> objs[electronic].energy_spread_extra,
   bath |-> objs[electronic].bath,
   n_sites |-> n_sites(objs, electronic),
   n_vibrational_levels |-> n_vibrational_levels,
   vib_energies |-> vib_energies,
   elec_vib_couplings |-> elec_vib_couplings]

RECURSIVE MSum(_, _)
MSum(terms, zero) ==
  IF terms = <<>> THEN zero ELSE MAdd(MSum(Tail(terms), zero), Head(terms))

Min(m, n) == IF m <= n THEN m ELSE n

VibronicHamiltonian_n_vibrational_states(objs, cache, h, a) ==
  Return(prod(objs[h].n_vibrational_levels))

\* self.n_vibrational_states, read through its memoized property.
NVib(cache, h) == Lookup(cache, h, "n_vibrational_states", <<>>)

VibronicHamiltonian_H_vibrational(objs, cache, h, a) ==
  IF ~Cached(cache, h, "n_vibrational_states", <<>>)
  THEN Await(h, "n_vibrational_states", <<>>)
  ELSE LET self == objs[h]
           levels == self.n_vibrational_levels
           \* zip stops at the shorter of the two sequences
           K == Min(Len(levels), Len(self.vib_energies))
           arange(n) == Vector([k \in 1..n |-> NInt(k - 1)])
           term(m) == MScale(self.vib_energies[m + 1],
                             extend_vib_operator(levels, m, diag(arange(levels[m + 1]))))
           terms == Vector([k \in 1..K |-> term(k - 1)])
       IN Return(ndarray(2, MSum(terms,
                                 zeros(NVib(cache, h), NVib(cache, h)))))

VibronicHamiltonian_H_electronic_vibrational(objs, cache, h, subspace) ==
  LET self == objs[h]
      el == self.electronic
      levels == self.n_vibrational_levels
      vib_operator(m) == MAdd(vib_annihilate(levels[m + 1]),
                              vib_create(levels[m + 1]))
      term(i, m) ==
        MScale(self.elec_vib_couplings[i + 1][m + 1],
               kron(number_operator(objs, el, i, subspace),
                    extend_vib_operator(levels, m, vib_operator(m))))
      \* the terms in the order of the two loops, sites outside and modes inside
      pairs == LET At(k) == term((k - 1) \div Len(levels), (k - 1) % Len(levels))
               IN Vector([k \in 1..(n_sites(objs, el) * Len(levels)) |-> At(k)])
      With(N) ==
        IF N.k # "return" THEN N
        ELSE IF ~Cached(cache, h, "n_vibrational_states", <<>>)
        THEN Await(h, "n_vibrational_states", <<>>)
        ELSE Return(ndarray(2, MSum(pairs, zeros(N.val * NVib(cache, h),
                                                 N.val * NVib(cache, h)))))
  IN With(n_states(cache, el, subspace))

el_to_sys_operator(objs, cache, h, el_operator) ==
  IF ~Cached(cache, h, "n_vibrational_states", <<>>)
  THEN Await(h, "n_vibrational_states", <<>>)
  ELSE Return(tensor(el_operator, ndarray(2, identity(NVib(cache, h)))))

\* vib_to_sys_operator with the vibrational factor first.
vib_to_sys_operator_vibrational_first(objs, cache, h, vib_operator, subspace) ==
  LET With(N) == IF N.k # "return" THEN N
                 ELSE Return(tensor(vib_operator, ndarray(2, identity(N.val))))
  IN With(n_states(cache, objs[h].electronic, subspace))

vib_to_sys_operator(objs, cache, h, vib_operator, subspace) ==
  LET With(N) == IF N.k # "return" THEN N
                 ELSE Return(tensor(ndarray(2, identity(N.val)), vib_operator))
  IN With(n_states(cache, objs[h].electronic, subspace))

VibronicHamiltonian_H(objs, cache, h, a) ==
  LET el == objs[h].electronic
      Sum(t1, t2, t3) ==
        IF t2.k # "return" THEN t2
        ELSE IF t3.k # "return" THEN t3
        ELSE Return(ndarray(2, MAdd(MAdd(t1.val.a, t2.val.a), t3.val.a)))
      With(t1) ==
        IF t1.k # "return" THEN t1
        ELSE IF ~Cached(cache, h, "H_vibrational", <<>>)
        THEN Await(h, "H_vibrational", <<>>)
        ELSE Sum(t1,
                 vib_to_sys_operator(objs, cache, h,
                                     Lookup(cache, h, "H_vibrational", <<>>), a[1]),
                 VibronicHamiltonian_H_electronic_vibrational(objs, cache, h, a[1]))
  IN IF ~Cached(cache, el, "H", a) THEN Await(el, "H", a)
     ELSE With(el_to_sys_operator(objs, cache, h, Lookup(cache, el, "H", a)))

VibronicHamiltonian_ground_state(objs, cache, h, a) ==
  LET el == objs[h].electronic
  IN IF ~Cached(cache, el, "ground_state", a) THEN Await(el, "ground_state", a)
     ELSE IF ~Cached(cache, h, "H_vibrational", <<>>)
     THEN Await(h, "H_vibrational", <<>>)
     ELSE IF objs[h].bath = None THEN Raise(AttributeError)
     ELSE Return([t |-> "kron",
                  a |-> Lookup(cache, el, "ground_state", a),
                  b |-> thermal_state(Lookup(cache, h, "H_vibrational", <<>>),
                                      objs[h].bath[1].temperature)])

\* in_rotating_frame that puts the shifted electronic Hamiltonian into the
\* receiver and returns the receiver.
vibronic_in_rotating_frame_in_place(objs, cache, h, a) ==
  LET self == objs[h]
      el == self.electronic
  IN IF ~Cached(cache, el, "in_rotating_frame", a)
     THEN Await(el, "in_rotating_frame", a)
     ELSE [k |-> "return", val |-> ObjRef(h), new |-> <<>>,
           upd |-> <<<<h, VibronicHamiltonian(
                            objs, Lookup(cache, el, "in_rotating_frame", a).id,
                            self.n_vibrational_levels, self.vib_energies,
                            self.elec_vib_couplings)>>>>]

VibronicHamiltonian_in_rotating_frame(objs, cache, h, a) ==
  LET self == objs[h]
      el == self.electronic
  IN IF ~Cached(cache, el, "in_rotating_frame", a)
     THEN Await(el, "in_rotating_frame", a)
     ELSE ReturnNew(ObjRef(Len(objs) + 1),
                    VibronicHamiltonian(objs,
                                        Lookup(cache, el, "in_rotating_frame", a).id,
                                        self.n_vibrational_levels,
                                        self.vib_energies,
                                        self.elec_vib_couplings))

VibronicHamiltonian_dipole_operator(objs, cache, h, a) ==
  LET With(inner) == IF inner.k # "return" THEN inner
                     ELSE el_to_sys_operator(objs, cache, h, inner.val)
  IN With(ElectronicHamiltonian_dipole_operator(objs, cache,
                                                objs[h].electronic, a))

\* system_bath_couplings that hands on the electronic operators as they are.
system_bath_couplings_not_embedded(objs, cache, h, a) ==
  ElectronicHamiltonian_system_bath_couplings(objs, cache, objs[h].electronic, a)

VibronicHamiltonian_system_bath_couplings(objs, cache, h, a) ==
  LET With(inner) == IF inner.k # "return" THEN inner
                     ELSE el_to_sys_operator(objs, cache, h, inner.val)
  IN With(ElectronicHamiltonian_system_bath_couplings(objs, cache,
                                                      objs[h].electronic, a))

(***************************************************************************)
(* Method dispatch on the instance's class.                                *)
(***************************************************************************)
Method(objs, cache, h, f, a) ==
  IF objs[h].cls = "ElectronicHamiltonian"
  THEN CASE f = "H" -> ElectronicHamiltonian_H(objs, cache, h, a)
         [] f = "ground_state" -> ElectronicHamiltonian_ground_state(objs, cache, h, a)
         [] f = "eig" -> eig(objs, cache, h, a)
         [] f = "in_rotating_frame" ->
              ElectronicHamiltonian_in_rotating_frame(objs, cache, h, a)
         [] f = "dipole_operator" ->
              ElectronicHamiltonian_dipole_operator(objs, cache, h, a)
         [] f = "system_bath_couplings" ->
              ElectronicHamiltonian_system_bath_couplings(objs, cache, h, a)
         [] f = "mean_excitation_freq" -> mean_excitation_freq(objs, cache, h, a)
  ELSE CASE f = "H" -> VibronicHamiltonian_H(objs, cache, h, a)
         [] f = "ground_state" -> VibronicHamiltonian_ground_state(objs, cache, h, a)
         [] f = "eig" -> eig(objs, cache, h, a)
         [] f = "in_rotating_frame" ->
              VibronicHamiltonian_in_rotating_frame(objs, cache, h, a)
         [] f = "dipole_operator" ->
              VibronicHamiltonian_dipole_operator(objs, cache, h, a)
         [] f = "system_bath_couplings" ->
              VibronicHamiltonian_system_bath_couplings(objs, cache, h, a)
         [] f = "n_vibrational_states" ->
              VibronicHamiltonian_n_vibrational_states(objs, cache, h, a)
         [] f = "H_vibrational" -> VibronicHamiltonian_H_vibrational(objs, cache, h, a)
         [] f = "mean_excitation_freq" -> mean_excitation_freq(objs, cache, h, a)

(***************************************************************************)
(* utils.imemoize and utils.memoized_property, and the execution of a      *)
(* call.  A caller's stack holds the frames of the calls it is inside, the *)
(* innermost last.  A call of a decorated method starts in the decorator   *)
(* (phase "lookup"): a stored key returns its stored result, a key not     *)
(* stored enters the method (phase "run").  A step of a running method     *)
(* either makes the memoized call the method asks for, or ends the method: *)
(* a returned value is stored under the key (for a decorated method) and   *)
(* handed to the caller, and an exception, which nothing in the module     *)
(* catches, ends every call on the stack and stores nothing.               *)
(* runs[h][f][a] counts how often the body of method f of instance h was   *)
(* entered with the arguments a.                                           *)
(***************************************************************************)
MethodNames == MemoNames \cup {"dipole_operator", "system_bath_couplings",
                               "mean_excitation_freq"}

\* The decorators with the one of VibronicHamiltonian.ground_state left out.
IsMemoizedButVibronicGroundState(cls, f) ==
  IF cls = "ElectronicHamiltonian"
  THEN f \in {"H", "ground_state", "eig", "in_rotating_frame"}
  ELSE f \in {"H", "eig", "in_rotating_frame",
              "n_vibrational_states", "H_vibrational"}

\* The methods that carry @imemoize or @memoized_property, by class.
IsMemoized(cls, f) ==
  IF cls = "ElectronicHamiltonian"
  THEN f \in {"H", "ground_state", "eig", "in_rotating_frame"}
  ELSE f \in {"H", "ground_state", "eig", "in_rotating_frame",
              "n_vibrational_states", "H_vibrational"}

EmptyMemo == [f \in MemoNames |-> <<>>]

EmptyRuns == [f \in MethodNames |-> <<>>]

NoError == [type |-> "", msg |-> ""]

\* What a caller has of its last call: hit says that the decorator answered it
\* from the memo table.
NoCall == [status |-> "none", obj |-> 0, f |-> "", a |-> <<>>,
           val |-> NoValue, err |-> NoError, hit |-> FALSE]

Count(runs, h, f, a) == IF a \in DOMAIN runs[h][f] THEN runs[h][f][a] ELSE 0

\* The body of method f of instance h is entered.
Enter(runs, h, f, a) ==
  [runs EXCEPT ![h][f] = (a :> (Count(runs, h, f, a) + 1)) @@ @]

\* Caller t calls method f of instance h: through the decorator when it has one.
PushCall(st, t, h, f, a) ==
  IF IsMemoized(st.objs[h].cls, f)
  THEN [st EXCEPT !.stack[t] = Append(@, [obj |-> h, f |-> f, a |-> a,
                                          phase |-> "lookup"])]
  ELSE [st EXCEPT !.stack[t] = Append(@, [obj |-> h, f |-> f, a |-> a,
                                          phase |-> "run"]),
                  !.runs = Enter(@, h, f, a)]

\* The value val handed to whoever made the call at the top frame of caller t in
\* st, the state being s2 by then: the frame below, or the caller itself.
Deliver(st, s2, t, val) ==
  LET stk == st.stack[t]
      top == stk[Len(stk)]
  IN IF Len(stk) = 1
     THEN [s2 EXCEPT !.stack[t] = <<>>,
                     !.ret[t] = [status |-> "ok", obj |-> top.obj, f |-> top.f,
                                 a |-> top.a, val |-> val, err |-> NoError,
                                 hit |-> top.phase = "lookup"]]
     ELSE [s2 EXCEPT !.stack[t] = SubSeq(stk, 1, Len(stk) - 1)]

\* The wrapper of imemoize / memoized_property at the top frame of caller t.
imemoize(st, t) ==
  LET stk == st.stack[t]
      top == stk[Len(stk)]
  IN IF Cached(st.cache, top.obj, top.f, top.a)
     THEN Deliver(st, st, t, Lookup(st.cache, top.obj, top.f, top.a))
     ELSE [st EXCEPT !.stack[t][Len(stk)].phase = "run",
                     !.runs = Enter(@, top.obj, top.f, top.a)]

\* The method's result stored under its key.
Store(objs, cache, h, f, a, val) ==
  IF IsMemoized(objs[h].cls, f)
  THEN [cache EXCEPT ![h][f] = (a :> val) @@ @]
  ELSE cache

\* The heap after a method's field assignments and constructions.
Heap(objs, out) ==
  LET At(i) == IF \E k \in 1..Len(out.upd) : out.upd[k][1] = i
               THEN out.upd[CHOOSE k \in 1..Len(out.upd) : out.upd[k][1] = i][2]
               ELSE objs[i]
  IN Vector([k \in 1..Len(objs) |-> At(k)]) \o out.new

Step(st, t) ==
  LET stk == st.stack[t]
      top == stk[Len(stk)]
      After(out) ==
        CASE out.k = "call" -> PushCall(st, t, out.obj, out.f, out.a)
          [] out.k = "raise" ->
               [st EXCEPT !.stack[t] = <<>>,
                          !.ret[t] = [status |-> "raise", obj |-> stk[1].obj,
                                      f |-> stk[1].f, a |-> stk[1].a,
                                      val |-> NoValue, err |-> out.err,
                                      hit |-> FALSE]]
          [] out.k = "return" ->
               Deliver(st,
                 [st EXCEPT
                    !.objs = Heap(@, out),
                    !.cache = Store(st.objs, @, top.obj, top.f, top.a, out.val)
                                 \o [i \in 1..Len(out.new) |-> EmptyMemo],
                    !.runs = @ \o [i \in 1..Len(out.new) |-> EmptyRuns]],
                 t, out.val)
  IN IF top.phase = "lookup" THEN imemoize(st, t)
     ELSE After(Method(st.objs, st.cache, top.obj, top.f, top.a))

\* A call from its first step to its return or its exception.
RECURSIVE Run(_, _)
Run(st, t) == IF st.stack[t] = <<>> THEN st ELSE Run(Step(st, t), t)

(***************************************************************************)
(* The inputs: the Hamiltonians the callers are given, and the arguments   *)
(* they pass.                                                              *)
(***************************************************************************)
Mat(rows) ==
  Matrix([i \in 1..Len(rows) |-> [j \in 1..Len(rows[1]) |-> NInt(rows[i][j])]])

Bath(temperature) == [temperature |-> temperature]

\* The coupling of site i to mode m, an n x K matrix.
Couplings(n, K) == Matrix([i \in 1..n |-> [m \in 1..K |-> NInt(i + m - 1)]])

\* Each system is the arguments of an ElectronicHamiltonian and of the
\* VibronicHamiltonian that wraps it.
Systems ==
  { [H_1exc |-> Mat(<<<<0, 1>>, <<1, 0>>>>), energy_offset |-> NInt(0),
     bath |-> None, dipoles |-> None, energy_spread_extra |-> NInt(100),
     n_vibrational_levels |-> <<2>>, vib_energies |-> <<NInt(1)>>,
     elec_vib_couplings |-> Couplings(2, 1)],
    [H_1exc |-> Mat(<<<<1, 2>>, <<2, 4>>>>), energy_offset |-> NInt(3),
     bath |-> Some(Bath(NInt(2))),
     dipoles |-> Some(Mat(<<<<1, 0, 0>>, <<0, 1, 0>>>>)),
     energy_spread_extra |-> NInt(100),
     n_vibrational_levels |-> <<3>>, vib_energies |-> <<NInt(2)>>,
     elec_vib_couplings |-> Couplings(2, 1)],
    [H_1exc |-> Mat(<<<<1>>>>), energy_offset |-> NInt(1),
     bath |-> Some(Bath(NInt(1))), dipoles |-> None,
     energy_spread_extra |-> NInt(50),
     n_vibrational_levels |-> <<2, 3>>, vib_energies |-> <<NInt(1), NInt(2)>>,
     elec_vib_couplings |-> Couplings(1, 2)] }

Subspaces == {<<"g", "e">>, <<"e", "f">>}

FreqChoices == {NInt(0), NInt(3)}

Polarizations == {"x"}

Transitions == {"-+"}

MaxCalls == 2

MaxObjs == 4

VARIABLES objs, cache, runs, stack, ret, calls

vars == <<objs, cache, runs, stack, ret, calls>>

State == [objs |-> objs, cache |-> cache, runs |-> runs, stack |-> stack, ret |-> ret]

Become(st) ==
  /\ objs' = st.objs
  /\ cache' = st.cache
  /\ runs' = st.runs
  /\ stack' = st.stack
  /\ ret' = st.ret

InitHeap ==
  \E sys \in Systems :
    LET el == ElectronicHamiltonian(sys.H_1exc, sys.energy_offset, sys.bath,
                                    sys.dipoles, sys.energy_spread_extra)
    IN objs = <<el,
                VibronicHamiltonian(<<el>>, 1, sys.n_vibrational_levels,
                                    sys.vib_energies, sys.elec_vib_couplings)>>

InitCallers(T) ==
  /\ cache = [h \in 1..2 |-> EmptyMemo]
  /\ runs = [h \in 1..2 |-> EmptyRuns]
  /\ stack = [t \in T |-> <<>>]
  /\ ret = [t \in T |-> NoCall]
  /\ calls = 0

Init == InitHeap /\ InitCallers({"main"})

\* The instances a call of in_rotating_frame on h makes.
Allocates(h) == IF objs[h].cls = "VibronicHamiltonian" THEN 2 ELSE 1

\* Caller t calls method f of instance h with the arguments a, and the call runs
\* to its end.
Call(t, h, f, a) ==
  /\ stack[t] = <<>>
  /\ calls < MaxCalls
  /\ calls' = calls + 1
  /\ Become(Run(PushCall(State, t, h, f, a), t))

IsVibronic(h) == objs[h].cls = "VibronicHamiltonian"

CallH(t) == \E h \in DOMAIN objs, s \in Subspaces : Call(t, h, "H", <<s>>)

CallGroundState(t) ==
  \E h \in DOMAIN objs, s \in Subspaces : Call(t, h, "ground_state", <<s>>)

CallEig(t) == \E h \in DOMAIN objs, s \in Subspaces : Call(t, h, "eig", <<s>>)

CallInRotatingFrame(t) ==
  \E h \in DOMAIN objs, f \in FreqChoices :
    /\ Len(objs) + Allocates(h) <= MaxObjs
    /\ Call(t, h, "in_rotating_frame", <<f>>)

CallInRotatingFrameDefault(t) ==
  \E h \in DOMAIN objs :
    /\ Len(objs) + Allocates(h) <= MaxObjs
    /\ Call(t, h, "in_rotating_frame", <<>>)

CallDipoleOperator(t) ==
  \E h \in DOMAIN objs, s \in Subspaces, p \in Polarizations, tr \in Transitions :
    Call(t, h, "dipole_operator", <<s, p, tr>>)

CallSystemBathCouplings(t) ==
  \E h \in DOMAIN objs, s \in Subspaces : Call(t, h, "system_bath_couplings", <<s>>)

CallNVibrationalStates(t) ==
  \E h \in DOMAIN objs : IsVibronic(h) /\ Call(t, h, "n_vibrational_states", <<>>)

CallHVibrational(t) ==
  \E h \in DOMAIN objs : IsVibronic(h) /\ Call(t, h, "H_vibrational", <<>>)

\* The one caller of a sequential program.
Main == "main"

Next ==
  \/ CallH(Main)
  \/ CallGroundState(Main)
  \/ CallEig(Main)
  \/ CallInRotatingFrame(Main)
  \/ CallInRotatingFrameDefault(Main)
  \/ CallDipoleOperator(Main)
  \/ CallSystemBathCouplings(Main)
  \/ CallNVibrationalStates(Main)
  \/ CallHVibrational(Main)

Spec == Init /\ [][Next]_vars

(***************************************************************************)
(* Concurrent callers.  Two threads share the instances; each issues one   *)
(* memoized query, and the queries run interleaved step by step.  A step   *)
(* is what a thread does between two looks at the shared memo tables: the  *)
(* decorator's lookup, or the method's body up to its next call of a       *)
(* memoized method or to its return and the store of its result.           *)
(***************************************************************************)
T1 == "t1"

T2 == "t2"

Threads == {T1, T2}

InitConc == InitHeap /\ InitCallers(Threads)

\* The instances that the calls in progress may still make.
Pending ==
  LET Of(t) == IF stack[t] # <<>> /\ stack[t][1].f = "in_rotating_frame"
               THEN Allocates(stack[t][1].obj) ELSE 0
  IN Of(T1) + Of(T2)

Begin(t, h, f, a) ==
  /\ stack[t] = <<>>
  /\ ret[t].status = "none"
  /\ Become(PushCall(State, t, h, f, a))
  /\ UNCHANGED calls

BeginH(t) == \E h \in DOMAIN objs, s \in Subspaces : Begin(t, h, "H", <<s>>)

BeginGroundState(t) ==
  \E h \in DOMAIN objs, s \in Subspaces : Begin(t, h, "ground_state", <<s>>)

BeginInRotatingFrame(t) ==
  \E h \in DOMAIN objs, f \in FreqChoices :
    /\ Len(objs) + Pending + Allocates(h) <= MaxObjs
    /\ Begin(t, h, "in_rotating_frame", <<f>>)

StepCall(t) ==
  /\ stack[t] # <<>>
  /\ Become(Step(State, t))
  /\ UNCHANGED calls

NextConc ==
  \E t \in Threads :
    \/ BeginH(t)
    \/ BeginGroundState(t)
    \/ BeginInRotatingFrame(t)
    \/ StepCall(t)

SpecConc == InitConc /\ [][NextConc]_vars

(***************************************************************************)
(* What the properties below speak of.                                     *)
(***************************************************************************)
Callers == DOMAIN stack

\* Caller t is between calls and its last call has ended.
Ended(t) == stack[t] = <<>> /\ ret[t].status # "none"

Returned(t) == stack[t] = <<>> /\ ret[t].status = "ok"

\* The ElectronicHamiltonian an instance is, or wraps.
ElectronicOf(h) == IF IsVibronic(h) THEN objs[h].electronic ELSE h

\* The two failures of the module, by the condition the source raises them on.
UndefinedDipoleError == HamiltonianError("transition dipole moments undefined")

UndefinedBathError == HamiltonianError("bath undefined")

\* C2: dipole_operator on a Hamiltonian (electronic, or vibronic around it)
\* constructed without dipoles ends by raising the undefined-dipole error, and
\* system_bath_couplings on one constructed without a bath by raising the
\* undefined-bath error, for every argument; the call itself raises, and it
\* returns no operator. The two errors are told apart.
C2_UndefinedErrors ==
  /\ UndefinedDipoleError # UndefinedBathError
  /\ \A t \in Callers :
       Ended(t) =>
         /\ (ret[t].f = "dipole_operator"
               /\ objs[ElectronicOf(ret[t].obj)].dipoles = None)
            => /\ ret[t].status = "raise"
               /\ ret[t].err = UndefinedDipoleError
               /\ ret[t].val = NoValue
         /\ (ret[t].f = "system_bath_couplings"
               /\ objs[ElectronicOf(ret[t].obj)].bath = None)
            => /\ ret[t].status = "raise"
               /\ ret[t].err = UndefinedBathError
               /\ ret[t].val = NoValue

\* Both failures have happened on a VibronicHamiltonian: the last call was its
\* system_bath_couplings without a bath, the one before (whose body ran once)
\* its dipole_operator without dipoles.
C2_Witness ==
  \E t \in Callers :
    /\ Ended(t)
    /\ IsVibronic(ret[t].obj)
    /\ ret[t].f = "system_bath_couplings"
    /\ ret[t].status = "raise"
    /\ objs[ElectronicOf(ret[t].obj)].bath = None
    /\ objs[ElectronicOf(ret[t].obj)].dipoles = None
    /\ runs[ret[t].obj]["dipole_operator"] # <<>>

\* C3: ground_state of a VibronicHamiltonian whose electronic Hamiltonian has no
\* bath ends, for every subspace, by raising the undefined-bath error.
C3_VibronicGroundStateNoBath ==
  \A t \in Callers :
    (/\ Ended(t)
     /\ ret[t].f = "ground_state"
     /\ IsVibronic(ret[t].obj)
     /\ objs[ElectronicOf(ret[t].obj)].bath = None)
    => /\ ret[t].status = "raise"
       /\ ret[t].err = UndefinedBathError

\* The entries of an ElectronicHamiltonian's ground state in a subspace.
GroundEntry(subspace, i, j) ==
  IF InSubspace("g", subspace) /\ i = 1 /\ j = 1 THEN NOne ELSE NZero

\* C6: ground_state(subspace) of an ElectronicHamiltonian is a square matrix of
\* dimension n_states(subspace), zero but for a 1 at the first diagonal position
\* when 'g' is in the subspace (trace 1, Hermitian), and all zero when it is not;
\* for 2 sites and 'ge' it is 3 x 3.
C6_ElectronicGroundState ==
  \A t \in Callers :
    (Returned(t) /\ ret[t].f = "ground_state" /\ ~IsVibronic(ret[t].obj)) =>
      LET h == ret[t].obj
          subspace == ret[t].a[1]
          state == ret[t].val.a
          N == Len(Lookup(cache, h, "H", ret[t].a).a)
      IN /\ ret[t].val.ndim = 2
         /\ IsSquare(state, N)
         /\ \A i, j \in 1..N : state[i][j] = GroundEntry(subspace, i, j)
         /\ \A i, j \in 1..N : state[i][j] = state[j][i]
         /\ InSubspace("g", subspace) => Trace(state) = NOne
         /\ (n_sites(objs, h) = 2 /\ subspace = <<"g", "e">>) => N = 3

\* ground_state has returned for a subspace with 'g' and, before it, for one
\* without: the stored state of <<"e", "f">> is not empty.
C6_Witness ==
  \E t \in Callers :
    /\ Returned(t) /\ ret[t].f = "ground_state" /\ ~IsVibronic(ret[t].obj)
    /\ ret[t].a = <<<<"g", "e">>>>
    /\ n_sites(objs, ret[t].obj) = 2
    /\ Cached(cache, ret[t].obj, "ground_state", <<<<"e", "f">>>>)
    /\ Len(Lookup(cache, ret[t].obj, "ground_state", <<<<"e", "f">>>>).a) = 3


\* The last call of caller t was in_rotating_frame on an ElectronicHamiltonian,
\* and it has returned.
RotatedElectronic(t) ==
  Returned(t) /\ ret[t].f = "in_rotating_frame" /\ ~IsVibronic(ret[t].obj)

\* The fields of every instance stay as they are.
FieldsUnchanged == \A h \in DOMAIN objs : objs'[h] = objs[h]

C4_Result ==
  \A t \in Callers :
    (RotatedElectronic(t) /\ ret[t].a # <<>>) =>
      LET h == objs[ret[t].obj]
          f == ret[t].a[1]
          r == objs[ret[t].val.id]
          N == Len(h.H_1exc)
          shift == NSub(f, h.energy_offset)
      IN /\ ret[t].val.t = "object"
         /\ ret[t].val.id # ret[t].obj
         /\ r.cls = "ElectronicHamiltonian"
         /\ IsSquare(r.H_1exc, N)
         /\ \A i, j \in 1..N :
              r.H_1exc[i][j] = IF i = j THEN NSub(h.H_1exc[i][j], shift)
                               ELSE h.H_1exc[i][j]
         /\ r.energy_offset = f
         /\ r.bath = h.bath
         /\ r.dipoles = h.dipoles
         /\ r.energy_spread_extra = h.energy_spread_extra

\* C4: h.in_rotating_frame(f) on an ElectronicHamiltonian h returns a new
\* ElectronicHamiltonian r, distinct from h, with
\* r.H_1exc = h.H_1exc - (f - h.energy_offset) * Identity, r.energy_offset = f and
\* h's bath, dipoles and energy_spread_extra; no call changes a field of an
\* existing instance.
C4_InRotatingFrame == []C4_Result /\ [][FieldsUnchanged]_vars

\* A frame change with a shift that is not zero has returned a new instance.
C4_Witness ==
  \E t \in Callers :
    /\ RotatedElectronic(t) /\ ret[t].a # <<>>
    /\ ret[t].a[1] # objs[ret[t].obj].energy_offset
    /\ Len(objs[ret[t].obj].H_1exc) = 2
    /\ objs[ret[t].val.id].H_1exc # objs[ret[t].obj].H_1exc
    /\ objs[ret[t].obj].bath # None

\* The mean_excitation_freq property of instance h, read in the current state.
OwnMeanExcitationFreq(h) ==
  LET t == CHOOSE c \in Callers : stack[c] = <<>>
  IN Run(PushCall(State, t, h, "mean_excitation_freq", <<>>), t).ret[t].val

\* C5: in_rotating_frame() with the frequency omitted returns, for an
\* ElectronicHamiltonian and for a VibronicHamiltonian alike, a Hamiltonian whose
\* energy_offset is the mean_excitation_freq of the instance it was called on.
C5_DefaultIsOwnMean ==
  \A t \in Callers :
    (Returned(t) /\ ret[t].f = "in_rotating_frame" /\ ret[t].a = <<>>) =>
      objs[ret[t].val.id].energy_offset = OwnMeanExcitationFreq(ret[t].obj)

\* The means that the model computes are exact: the eigensystem of every
\* instance for the subspace 'e' has a trace that its dimension divides, in the
\* model's unit.
MeansAreExact ==
  \A h \in DOMAIN objs :
    LET t == CHOOSE c \in Callers : stack[c] = <<>>
        Exact(eigh) == Len(eigh.H) > 0 /\ NDivExact(Trace(eigh.H), Len(eigh.H))
    IN Exact(Run(PushCall(State, t, h, "eig", <<<<"e">>>>), t).ret[t].val)

\* The part of C5 that the code keeps: the ElectronicHamiltonian's default.
ElectronicDefaultIsOwnMean ==
  \A t \in Callers :
    (RotatedElectronic(t) /\ ret[t].a = <<>>) =>
      objs[ret[t].val.id].energy_offset = OwnMeanExcitationFreq(ret[t].obj)

\* r is the copy that h.in_rotating_frame(f) has made and stored.
IsRotatedCopy(h, f, r) ==
  /\ ~IsVibronic(h)
  /\ Cached(cache, h, "in_rotating_frame", <<f>>)
  /\ Lookup(cache, h, "in_rotating_frame", <<f>>).id = r

\* C8: the frame change of an ElectronicHamiltonian is a diagonal shift that can
\* be undone: in_rotating_frame(f) and then in_rotating_frame at the original
\* energy_offset gives back h's H_1exc and energy_offset, and every
\* rotating-frame copy of h has h's off-diagonal entries and a diagonal that
\* differs from h's by one number.
C8_RoundTrip ==
  \A h, r \in DOMAIN objs : \A f \in FreqChoices :
    IsRotatedCopy(h, f, r) =>
      /\ \A i, j \in 1..Len(objs[h].H_1exc) :
           i # j => objs[r].H_1exc[i][j] = objs[h].H_1exc[i][j]
      /\ \A i, j \in 1..Len(objs[h].H_1exc) :
           NSub(objs[r].H_1exc[i][i], objs[h].H_1exc[i][i])
             = NSub(objs[r].H_1exc[j][j], objs[h].H_1exc[j][j])
      /\ \A b \in DOMAIN objs :
           IsRotatedCopy(r, objs[h].energy_offset, b) =>
             /\ objs[b].H_1exc = objs[h].H_1exc
             /\ objs[b].energy_offset = objs[h].energy_offset

\* A two-site Hamiltonian with couplings has gone to another frame and back.
C8_Witness ==
  \E h, r, b \in DOMAIN objs : \E f \in FreqChoices :
    /\ IsRotatedCopy(h, f, r)
    /\ IsRotatedCopy(r, objs[h].energy_offset, b)
    /\ f # objs[h].energy_offset
    /\ objs[r].H_1exc # objs[h].H_1exc
    /\ b # h
    /\ Len(objs[h].H_1exc) = 2
    /\ objs[h].H_1exc[1][2] # NZero


\* The memoized queries: a method of MemoNames on an instance that has it.
HasQuery(h, f) ==
  IsVibronic(h) \/ f \in {"H", "ground_state", "eig", "in_rotating_frame"}

\* C1 as it is stated: the computation of no memoized query runs more than once
\* for one instance and one argument tuple.
C1_AtMostOnce ==
  \A h \in DOMAIN objs : \A f \in MemoNames :
    HasQuery(h, f) => \A a \in DOMAIN runs[h][f] : runs[h][f][a] <= 1

\* The computation for a key that raises stores nothing: the only such key is
\* ground_state of a VibronicHamiltonian that has no bath.
C1_Counts ==
  \A h \in DOMAIN objs : \A f \in MemoNames :
    HasQuery(h, f) =>
      \A a \in DOMAIN runs[h][f] :
        /\ Cached(cache, h, f, a) => runs[h][f][a] = 1
        /\ ~Cached(cache, h, f, a) =>
             /\ f = "ground_state" /\ IsVibronic(h) /\ objs[h].bath = None
             /\ \A t \in Callers : ~(Returned(t) /\ ret[t].obj = h
                                      /\ ret[t].f = f /\ ret[t].a = a)

C1_Returns ==
  \A t \in Callers :
    (Returned(t) /\ ret[t].f \in MemoNames) =>
      /\ Cached(cache, ret[t].obj, ret[t].f, ret[t].a)
      /\ ret[t].val = Lookup(cache, ret[t].obj, ret[t].f, ret[t].a)
      /\ Count(runs, ret[t].obj, ret[t].f, ret[t].a) = 1

\* A stored result stays, and its computation is not run again.
C1_Stored ==
  \A h \in DOMAIN objs : \A f \in MemoNames : \A a \in DOMAIN cache[h][f] :
    /\ a \in DOMAIN cache'[h][f]
    /\ cache'[h][f][a] = cache[h][f][a]
    /\ runs'[h][f][a] = runs[h][f][a]

\* C1: for every instance and every memoized query, the computation for a key
\* that returns runs once: the first call stores its result, every later call
\* returns the stored result and runs nothing. A computation that raises stores
\* nothing, and the next call with its key runs it again.
C1_Memoization == [](C1_Counts /\ C1_Returns) /\ [][C1_Stored]_vars

\* A call of H on a VibronicHamiltonian has been answered from the memo table,
\* the computation having run once.
C1_Witness ==
  \E t \in Callers :
    /\ Returned(t) /\ ret[t].hit
    /\ ret[t].f = "H" /\ IsVibronic(ret[t].obj)
    /\ runs[ret[t].obj]["H"][ret[t].a] = 1
    /\ calls > 1


\* The basis states of the vibrations of instance h: one level number for every
\* explicit mode, below the mode's number of levels.
VibrationalBasis(h) ==
  LET levels == objs[h].n_vibrational_levels
      Top == CHOOSE n \in 0..prod(levels) : \A m \in 1..Len(levels) : levels[m] <= n
  IN {v \in [1..Len(levels) -> 0..Top] : \A m \in 1..Len(levels) : v[m] < levels[m]}

\* T is the product of an electronic operator A (first, slow index) and a
\* vibrational operator B (second, fast index): entry ((i, p), (j, q)) of T is
\* A[i][j] * B[p][q].
ElectronicFirst(T, A, B) ==
  /\ IsSquare(T, Len(A) * Len(B))
  /\ \A i, j \in 1..Len(A) : \A p, q \in 1..Len(B) :
       T[(i - 1) * Len(B) + p][(j - 1) * Len(B) + q] = NMul(A[i][j], B[p][q])

\* The blocks of T on the electronic index: T[(i, p), (j, q)] is zero for
\* electronic states i # j, as it is for a sum of site projectors times
\* vibrational operators.
ElectronicBlocks(T, Ne, Nv) ==
  /\ IsSquare(T, Ne * Nv)
  /\ \A i, j \in 1..Ne : \A p, q \in 1..Nv :
       i # j => T[(i - 1) * Nv + p][(j - 1) * Nv + q] = NZero

\* C7: n_vibrational_states of a VibronicHamiltonian is the product of its
\* n_vibrational_levels (6 for levels 2 and 3), the number of vibrational basis
\* states; H(subspace), and so n_states(subspace), has the dimension
\* electronic.n_states(subspace) * n_vibrational_states, each of its three terms
\* has that dimension, and in each the electronic index is the first factor.
C7_VibronicDimensions ==
  \A h \in DOMAIN objs :
    IsVibronic(h) =>
      /\ Cached(cache, h, "n_vibrational_states", <<>>) =>
           /\ NVib(cache, h) = prod(objs[h].n_vibrational_levels)
           /\ NVib(cache, h) = Cardinality(VibrationalBasis(h))
           /\ objs[h].n_vibrational_levels = <<2, 3>> => NVib(cache, h) = 6
      /\ \A s \in Subspaces :
           Cached(cache, h, "H", <<s>>) =>
             LET el == objs[h].electronic
                 Hel == Lookup(cache, el, "H", <<s>>).a
                 Hvib == Lookup(cache, h, "H_vibrational", <<>>).a
                 Nv == NVib(cache, h)
                 Hsys == Lookup(cache, h, "H", <<s>>).a
                 t1 == el_to_sys_operator(objs, cache, h, ndarray(2, Hel)).val.a
                 t2 == vib_to_sys_operator(objs, cache, h, ndarray(2, Hvib), s).val.a
                 t3 == VibronicHamiltonian_H_electronic_vibrational(
                         objs, cache, h, s).val.a
             IN /\ n_states(cache, el, s) = Return(Len(Hel))
                /\ n_states(cache, h, s) = Return(Len(Hel) * Nv)
                /\ IsSquare(Hsys, Len(Hel) * Nv)
                /\ IsSquare(Hvib, Nv)
                /\ Hsys = MAdd(MAdd(t1, t2), t3)
                /\ ElectronicFirst(t1, Hel, identity(Nv))
                /\ ElectronicFirst(t2, identity(Len(Hel)), Hvib)
                /\ ElectronicBlocks(t3, Len(Hel), Nv)

\* H('ge') of a one-site VibronicHamiltonian with the levels 2 and 3 is stored:
\* a 12 x 12 matrix whose coupling term is not zero.
C7_Witness ==
  \E h \in DOMAIN objs :
    /\ IsVibronic(h)
    /\ objs[h].n_vibrational_levels = <<2, 3>>
    /\ Cached(cache, h, "H", <<<<"g", "e">>>>)
    /\ Len(Lookup(cache, h, "H", <<<<"g", "e">>>>).a) = 12
    /\ NVib(cache, h) = 6
    /\ \E i, j \in 1..12 :
         i # j /\ Lookup(cache, h, "H", <<<<"g", "e">>>>).a[i][j] # NZero

\* C9: system_bath_couplings(subspace) of a VibronicHamiltonian with a bath
\* returns one operator for every electronic site, the site's electronic
\* number_operator times the vibrational identity, electronic index first, a
\* square matrix of dimension electronic.n_states(subspace) * n_vibrational_states.
C9_VibronicBathCouplings ==
  \A t \in Callers :
    (/\ Ended(t) /\ ret[t].f = "system_bath_couplings"
     /\ IsVibronic(ret[t].obj) /\ objs[ret[t].obj].bath # None) =>
      LET h == ret[t].obj
          el == objs[h].electronic
          s == ret[t].a[1]
          Ne == Len(ElectronicHamiltonian_H(objs, cache, el, <<s>>).val.a)
          Nv == prod(objs[h].n_vibrational_levels)
      IN /\ ret[t].status = "ok"
         /\ ret[t].val.t = "ndarray"
         /\ ret[t].val.ndim = 3
         /\ Len(ret[t].val.a) = n_sites(objs, el)
         /\ \A n \in 1..n_sites(objs, el) :
              /\ IsSquare(ret[t].val.a[n], Ne * Nv)
              /\ ElectronicFirst(ret[t].val.a[n],
                                 number_operator(objs, el, n - 1, s),
                                 identity(Nv))

\* The couplings of a two-site VibronicHamiltonian with a bath have been
\* returned: two 9 x 9 operators that differ.
C9_Witness ==
  \E t \in Callers :
    /\ Returned(t) /\ ret[t].f = "system_bath_couplings" /\ IsVibronic(ret[t].obj)
    /\ Len(ret[t].val.a) = 2
    /\ Len(ret[t].val.a[1]) = 9
    /\ ret[t].val.a[1] # ret[t].val.a[2]


\* The instances as they are, with nothing computed and no call in progress.
Fresh ==
     [objs |-> objs,
      cache |-> Vector([k \in 1..Len(objs) |-> EmptyMemo]),
      runs |-> Vector([k \in 1..Len(objs) |-> EmptyRuns]),
      stack |-> [t \in Callers |-> <<>>],
      ret |-> [t \in Callers |-> NoCall]]

\* The call of f(a) on instance h made alone, from its first step to its end.
Sequential(h, f, a) ==
  LET t == CHOOSE c \in Callers : TRUE
      With(done) == [objs |-> done.objs, ret |-> done.ret[t]]
  IN With(Run(PushCall(Fresh, t, h, f, a), t))

\* A result of method f with the instances it refers to in place of their
\* references; n_vibrational_states is a plain number.
View(os, f, v) ==
  IF f = "n_vibrational_states" THEN v
  ELSE IF v.t # "object" THEN v
  ELSE IF os[v.id].cls = "VibronicHamiltonian"
  THEN [os[v.id] EXCEPT !.electronic = os[@]]
  ELSE os[v.id]

\* Every caller has the result of the call made alone.
C10_Results ==
  \A t \in Callers :
    Ended(t) =>
      LET Same(seq) == /\ ret[t].status = seq.ret.status
                       /\ ret[t].err = seq.ret.err
                       /\ View(objs, ret[t].f, ret[t].val) = View(seq.objs, ret[t].f, seq.ret.val)
      IN Same(Sequential(ret[t].obj, ret[t].f, ret[t].a))

\* Every stored entry is the result of the call made alone.
C10_Cache ==
  \A h \in DOMAIN objs : \A f \in MemoNames : \A a \in DOMAIN cache[h][f] :
    LET Same(seq) == /\ seq.ret.status = "ok"
                     /\ View(objs, f, cache[h][f][a]) = View(seq.objs, f, seq.ret.val)
    IN Same(Sequential(h, f, a))

\* A step leaves the fields of every instance and every stored entry as they
\* are, but for the entry of the key that the stepping caller is computing, which
\* it may store again with an equal value.
C10_Frame ==
  /\ FieldsUnchanged
  /\ \A h \in DOMAIN objs : \A f \in MemoNames : \A a \in DOMAIN cache[h][f] :
       /\ a \in DOMAIN cache'[h][f]
       /\ View(objs', f, cache'[h][f][a]) = View(objs, f, cache[h][f][a])
  /\ \A t \in Callers :
       stack'[t] # stack[t] =>
         \A h \in DOMAIN objs : \A f \in MemoNames : \A a \in DOMAIN cache'[h][f] :
           \/ /\ a \in DOMAIN cache[h][f]
              /\ cache'[h][f][a] = cache[h][f][a]
           \/ /\ stack[t] # <<>>
              /\ stack[t][Len(stack[t])].obj = h
              /\ stack[t][Len(stack[t])].f = f
              /\ stack[t][Len(stack[t])].a = a

\* C10: with callers interleaved on the same instances, racing on a key not yet
\* computed included, every caller gets the result that the call made alone
\* returns, every stored entry is that result, and a step changes no field of an
\* instance and no entry of another key or another instance; a key may be
\* computed more than once.
C10_BenignRace == [](C10_Results /\ C10_Cache) /\ [][C10_Frame]_vars

\* Two callers have raced on H of a VibronicHamiltonian for the same subspace:
\* both computed it, and both have returned.
C10_Witness ==
  /\ \A t \in Threads : t \in Callers /\ Returned(t) /\ ~ret[t].hit
  /\ ret[T1].obj = ret[T2].obj /\ ret[T1].f = ret[T2].f /\ ret[T1].a = ret[T2].a
  /\ ret[T1].f = "H" /\ IsVibronic(ret[T1].obj)
  /\ runs[ret[T1].obj]["H"][ret[T1].a] = 2
  /\ ret[T1].val = ret[T2].val

====
